---- MODULE Spec2Model ----
(***************************************************************************)
(* Model of the message relayer's Prover (src/src/prover.ts), its          *)
(* Multicaller (src/src/multicaller.ts) and splitArray (src/src/utils.ts). *)
(*                                                                         *)
(* The Prover is driven by an outer loop that calls handleMultipleBlock    *)
(* and writeState; a process restart constructs both objects anew and      *)
(* runs init() on the persisted record.  Every await of the source is a    *)
(* step boundary of the model; the synchronous code between two awaits is  *)
(* one step.  The recursion of Multicaller.multicall is carried by an      *)
(* explicit stack of pending batches (depth-first, first half first).      *)
(***************************************************************************)
EXTENDS Integers, Sequences, FiniteSets, TLC

\* ---- bounds of the model ------------------------------------------------
MaxHead == 2          \* the chain heads getBlockNumber can report are 0..MaxHead
MaxBatchSize == 12    \* isOvertargetGas is tabulated for sizes 0..MaxBatchSize
MaxCalls == 6         \* a direct call of multicall is given 0..MaxCalls calls
MaxStack == 5         \* multicall invocations pending at once
MaxEstimations == 16  \* estimations one flush can make

\* ---- inputs --------------------------------------------------------------
FromIndexes == {0, 1}       \* configured fromL2TransactionIndex
Confirmations == {0, 1}     \* configured l2blockConfirmations
ReorgDepths == {0, 1}       \* configured reorgSafetyDepth
TxCounts == {0, 1, 2}       \* transactions in one L2 block
\* L2 transactions whose proveMessage call reverts on L1 when executed alone:
\* the cases in which that is known of some call.
RevertingSets == (SUBSET {<<1, 1>>, <<1, 2>>, <<2, 1>>}) \ {{}}

\* ---- program constants --------------------------------------------------
targetGas == 1000000          \* multicaller.ts:29, default of the constructor
gasMultiplierNum == 11        \* multicaller.ts:30, gasMultiplier = 1.1 = 11/10
gasMultiplierDen == 10
Undefined == -1               \* a number field that was never assigned (multicaller.ts:20)

\* The callback argument the Prover hands to multicall (prover.ts:143, 176).
NullCallback == "null"
ProverCallback == NullCallback
\* The callback of another caller of multicall: a function that returns.
FunctionCallback == "function"
Callbacks == {NullCallback, FunctionCallback}

\* Message status as the messenger reports it (prover.ts:102-109).
READY_TO_PROVE == "READY_TO_PROVE"
OTHER_STATUS == "OTHER"
Statuses == {READY_TO_PROVE, OTHER_STATUS}

\* Outcome of contract.estimateGas.tryAggregate (multicaller.ts:47-52): a gas
\* figure, or an error identified by its message.
EstimateOk == "ok"
ErrReverted == "execution reverted"
ErrGasAllowance == "gas required exceeds allowance"
EstimateErrors == {ErrReverted, ErrGasAllowance}
EstimateOutcomes == {EstimateOk} \cup EstimateErrors

\* Outcome of sending the aggregate and waiting for it (multicaller.ts:74-79).
TxIncluded == "included"
TxSendFailed == "send failed"
TxWaitFailed == "wait failed"
SubmitOutcomes == {TxIncluded, TxSendFailed, TxWaitFailed}

\* Values messenger.estimateGas.proveMessage may answer (prover.ts:113-115).
GasEstimates == {400000, 1000000}

NoFile == [present |-> FALSE, highestKnownL2 |-> 0, highestProvenL2 |-> 0,
           highestFinalizedL2 |-> 0]

VARIABLES
  state,                  \* Prover.state: the three watermarks
  file,                   \* the persisted record at stateFilePath
  reverting,              \* hashes of the calls known to revert when executed alone
  callback,               \* the callback argument multicall is called with
  fromL2TransactionIndex, \* configuration, fixed at construction
  l2blockConfirmations,
  reorgSafetyDepth,
  initalIteration,        \* Prover.initalIteration
  singleCallGas,          \* Multicaller.singleCallGas
  pc,                     \* where handleMultipleBlock stands
  latestL2,               \* the head getBlockNumber answered last
  before,                 \* the watermarks when the running scan was entered
  h,                      \* loop variable of handleMultipleBlock
  j,                      \* loop variable of handleSingleBlock (1-based)
  block,                  \* statuses of the transactions of the fetched block
  calldatas,              \* the accumulator
  seen,                   \* hashes of the ready transactions the running scan visited
  flushed,                \* the batches the running scan handed to multicall
  stack,                  \* pending multicall invocations, innermost first
  results,                \* failed calls returned so far by resolved invocations
  ret,                    \* where the flush was started: "tx" or "end"
  thrown,                 \* the exception that ended the last handleMultipleBlock
  window,                 \* [start, end] of the last scan
  estLog,                 \* the estimations of the current flush, summed up
  submitted,              \* aggregates sent and included in the current flush
  aggregate,              \* the aggregate the current flush sent last, and how it went
  failedLog,              \* failed calls returned by the flushes of the last scan
  recon                   \* what the last reconciliation did

vars == <<state, file, reverting, callback, fromL2TransactionIndex, l2blockConfirmations,
          reorgSafetyDepth, initalIteration, singleCallGas, pc, latestL2,
          before, h, j, block, calldatas, seen, flushed, stack, results, ret, thrown, window, estLog, submitted,
          aggregate, failedLog, recon>>

config == <<fromL2TransactionIndex, l2blockConfirmations, reorgSafetyDepth>>
locals == <<h, j, block, calldatas, stack, results, ret>>

\* ---- utils.ts -----------------------------------------------------------
\* Math.ceil(array.length / 2)
middleOf(array) == (Len(array) + 1) \div 2

\* The halves returned second half first.
splitArray_halvesSwapped(array) ==
  <<SubSeq(array, middleOf(array) + 1, Len(array)),
    SubSeq(array, 1, middleOf(array))>>

splitArray(array) ==
  <<SubSeq(array, 1, middleOf(array)),
    SubSeq(array, middleOf(array) + 1, Len(array))>>

\* ---- prover.ts: watermarks ----------------------------------------------
\* updateHighestKnownL2 written as a high-water mark: a lower head is ignored.
updateHighestKnownL2_onlyUp(st, latest) ==
  IF st.highestKnownL2 < latest THEN [st EXCEPT !.highestKnownL2 = latest] ELSE st

updateHighestKnownL2(st, latest) == [st EXCEPT !.highestKnownL2 = latest]
updateHighestProvenL2(st, latest) == [st EXCEPT !.highestProvenL2 = latest]
updateHighestFinalizedL2(st, latest) == [st EXCEPT !.highestFinalizedL2 = latest]

\* init(): the persisted record, or all zero, lifted to the configured index.
initState(f, fromIndex) ==
  LET loaded == [highestKnownL2 |-> IF f.present THEN f.highestKnownL2 ELSE 0,
                 highestProvenL2 |-> IF f.present THEN f.highestProvenL2 ELSE 0,
                 highestFinalizedL2 |->
                   IF f.present THEN f.highestFinalizedL2 ELSE 0]
  IN IF loaded.highestProvenL2 < fromIndex
       THEN [loaded EXCEPT !.highestProvenL2 = fromIndex,
                           !.highestFinalizedL2 = fromIndex]
       ELSE loaded

\* handleL2Reorg without line 83: the finalized height is not rolled back.
handleL2Reorg_finalizedKept(st, latest, depth) ==
  LET s1 == updateHighestKnownL2(st, latest)
  IN IF s1.highestProvenL2 <= latest - depth
       THEN s1
       ELSE updateHighestProvenL2(s1, latest - depth)

\* handleL2Reorg without the early return of lines 67-69.
handleL2Reorg_alwaysRewinds(st, latest, depth) ==
  LET s1 == updateHighestKnownL2(st, latest)
      diff == s1.highestProvenL2 - (latest - depth)
  IN updateHighestFinalizedL2(updateHighestProvenL2(s1, latest - depth),
                              s1.highestFinalizedL2 - diff)

handleL2Reorg(st, latest, depth) ==
  LET s1 == updateHighestKnownL2(st, latest)
      currentProven == s1.highestProvenL2
      newProven == latest - depth
      s2 == updateHighestProvenL2(s1, newProven)
      diff == currentProven - newProven
  IN IF s1.highestProvenL2 <= latest - depth
       THEN s1
       ELSE updateHighestFinalizedL2(s2, s2.highestFinalizedL2 - diff)

\* The synchronous head of handleMultipleBlock, after getBlockNumber answered.
observeHead(st, latest, depth) ==
  IF latest = st.highestKnownL2 THEN st
  ELSE updateHighestKnownL2(
         IF latest < st.highestKnownL2 THEN handleL2Reorg(st, latest, depth)
                                       ELSE st,
         latest)

\* startScanHeight without the first-iteration branch of lines 203-207.
startScanHeight_fromProven(st, initial) == st.highestProvenL2 + 1

startScanHeight(st, initial) ==
  IF initial THEN st.highestFinalizedL2 ELSE st.highestProvenL2 + 1

endScanHeight(st, confirmations) == st.highestKnownL2 - confirmations

\* A call-with-metadata record (multicaller.ts:12-17, prover.ts:123-130);
\* target, callData and message take no part in any decision and are left out.
NoErr == "null"
NewCall(height, index) ==
  [blockHeight |-> height, txHash |-> <<height, index>>, err |-> NoErr]

Hashes(calls) == [i \in 1..Len(calls) |-> calls[i].txHash]
Heights(calls) == {calls[i].blockHeight : i \in 1..Len(calls)}

\* calldatas.reduce(...) without an initial value: the call of greatest
\* blockHeight; on an empty array reduce throws a TypeError.
ReduceEmptyError == "Reduce of empty array with no initial value"
highestOf(calls) ==
  CHOOSE x \in Heights(calls) : \A y \in Heights(calls) : y <= x

updateHighestCheckedL2(st, calls) ==
  IF calls = <<>>
    THEN [threw |-> TRUE, updated |-> FALSE, state |-> st]
    ELSE LET top == highestOf(calls)
             highest == IF 0 < top THEN top - 1 ELSE top
         IN IF highest <= st.highestProvenL2
              THEN [threw |-> FALSE, updated |-> FALSE, state |-> st]
              ELSE [threw |-> FALSE, updated |-> TRUE,
                    state |-> updateHighestProvenL2(st, highest)]

\* What one reconciliation did: the lists are sequences of transaction hashes.
NoRecon ==
  [ran |-> FALSE, threw |-> FALSE, calleds |-> <<>>, faileds |-> <<>>,
   succeeds |-> <<>>, advanced |-> FALSE, relayed |-> 0, posted |-> <<>>,
   posts |-> 0, warned |-> <<>>]

handleMulticallResult(st, calleds, faileds) ==
  LET failedIds == {faileds[i].txHash : i \in 1..Len(faileds)}
      succeeds == SelectSeq(calleds, LAMBDA call : call.txHash \notin failedIds)
      up == updateHighestCheckedL2(st, succeeds)
  IN [state |-> up.state,
      recon |->
        [ran |-> TRUE, threw |-> up.threw, calleds |-> Hashes(calleds),
         faileds |-> Hashes(faileds), succeeds |-> Hashes(succeeds),
         advanced |-> up.updated,
         relayed |-> IF up.updated THEN Len(succeeds) ELSE 0,
         posted |-> IF up.threw THEN <<>> ELSE Hashes(succeeds),
         posts |-> IF up.threw THEN 0 ELSE 1,
         warned |-> IF up.threw THEN <<>> ELSE Hashes(faileds)]]

\* ---- multicaller.ts -----------------------------------------------------
\* singleCallGas * size * gasMultiplier, in tenths of a gas unit; NaN when
\* singleCallGas was never assigned.
IsNaN(x) == x = Undefined
\* Line 89 without the factor gasMultiplier.
computeExpectedMulticallGas_noMultiplier(gas, size) ==
  IF IsNaN(gas) THEN Undefined ELSE gas * size * gasMultiplierDen

computeExpectedMulticallGas(gas, size) ==
  IF IsNaN(gas) THEN Undefined ELSE gas * size * gasMultiplierNum

\* targetGas < expected; every comparison with NaN is false.
isOvertargetGas(gas, size) ==
  /\ ~IsNaN(computeExpectedMulticallGas(gas, size))
  /\ targetGas * gasMultiplierDen < computeExpectedMulticallGas(gas, size)

\* The catch block without lines 54-57: the calibration is never reset.
resetSingleCallGas_never(gas, err) == gas

\* catch (err): the calibration after a failed estimation (multicaller.ts:54-57).
resetSingleCallGas(gas, err) ==
  IF err = ErrGasAllowance THEN 0 ELSE gas

\* Lines 60-63 without the assignment to calls[0].err.
failedSingle_errNotSet(calls, err) == <<calls[1]>>

\* calls.length === 1: the call, marked, is the result (multicaller.ts:60-63).
failedSingle(calls, err) == <<[calls[1] EXCEPT !.err = err]>>

\* tryAggregate called with requireSuccess = false.
requireSuccess_false == FALSE

\* const requireSuccess = true (multicaller.ts:45).
requireSuccess == TRUE

\* What estimateGas.tryAggregate(requireSuccess, calls) can answer: the
\* aggregate reverts when a call of it reverts and success is required of
\* every call, so no gas figure comes back; an error can come back in
\* every case (multicaller.ts:47-52).
revertsAlone(calls, known) == \E i \in 1..Len(calls) : calls[i].txHash \in known
estimateOutcomes(calls, known) ==
  IF requireSuccess /\ revertsAlone(calls, known) THEN EstimateErrors
                                                 ELSE EstimateOutcomes

\* Lines 74-79 inside a try whose catch drops the error: the send or the wait
\* fails and multicall goes on as if the aggregate were included.
submitThrows_swallowed(sent) == FALSE

\* contract.tryAggregate(...) or tx.wait() rejects: nothing catches it, the
\* promise of multicall rejects (multicaller.ts:74-79).
submitThrows(sent) == sent # TxIncluded

\* callback(tx.hash, calls): calling null throws a TypeError.
CallbackError == "callback is not a function"
callbackThrows(fn) == fn = NullCallback

\* ---- the state machine --------------------------------------------------
NoThrow == "none"
RpcError == "rpc error"
NoWindow == [start |-> 0, end |-> -1]
NoBefore == [highestKnownL2 |-> 0, highestProvenL2 |-> 0, highestFinalizedL2 |-> 0]

Blocks == UNION {[1..n -> Statuses] : n \in TxCounts}

\* The aggregate a flush sent last: the answer of the chain, how many calls
\* it carried and how many calls the flush was started with.
NotSent == "not sent"
NoAggregate == [outcome |-> NotSent, size |-> 0, of |-> 0]

\* The estimations of one flush: how many, whether every one failed, the
\* latestL2 one, and the outcome of each estimation of a single call, in order.
NoEstimation ==
  [count |-> 0, allFailed |-> TRUE, calls |-> <<>>, outcome |-> EstimateOk,
   singles |-> <<>>]
Estimation(log, calls, outcome) ==
  [count |-> log.count + 1,
   allFailed |-> log.allFailed /\ outcome # EstimateOk,
   calls |-> Hashes(calls),
   outcome |-> outcome,
   singles |-> IF Len(calls) = 1
                 THEN Append(log.singles,
                             [txHash |-> calls[1].txHash, outcome |-> outcome])
                 ELSE log.singles]

\* new Multicaller(...), new Prover(...), then init() with no persisted record.
Init ==
  /\ file = NoFile
  /\ reverting = {}
  /\ callback = ProverCallback
  /\ fromL2TransactionIndex \in FromIndexes
  /\ l2blockConfirmations \in Confirmations
  /\ reorgSafetyDepth \in ReorgDepths
  /\ state = initState(file, fromL2TransactionIndex)
  /\ initalIteration = TRUE
  /\ singleCallGas = Undefined
  /\ pc = "idle"
  /\ latestL2 = 0
  /\ before = NoBefore
  /\ h = 0 /\ j = 0 /\ block = <<>> /\ calldatas = <<>>
  /\ seen = <<>> /\ flushed = <<>>
  /\ stack = <<>> /\ results = <<>> /\ ret = "end"
  /\ thrown = NoThrow
  /\ window = NoWindow
  /\ estLog = NoEstimation /\ submitted = <<>> /\ failedLog = <<>>
  /\ aggregate = NoAggregate
  /\ recon = NoRecon

\* The same, with the proveMessage calls of some L2 transactions known to
\* revert, under one configuration.
InitRevert ==
  /\ file = NoFile
  /\ reverting \in RevertingSets
  /\ callback = ProverCallback
  /\ fromL2TransactionIndex = 0
  /\ l2blockConfirmations = 0
  /\ reorgSafetyDepth = 0
  /\ state = initState(file, fromL2TransactionIndex)
  /\ initalIteration = TRUE
  /\ singleCallGas = Undefined
  /\ pc = "idle"
  /\ latestL2 = 0
  /\ before = NoBefore
  /\ h = 0 /\ j = 0 /\ block = <<>> /\ calldatas = <<>>
  /\ seen = <<>> /\ flushed = <<>>
  /\ stack = <<>> /\ results = <<>> /\ ret = "end"
  /\ thrown = NoThrow
  /\ window = NoWindow
  /\ estLog = NoEstimation /\ submitted = <<>> /\ failedLog = <<>>
  /\ aggregate = NoAggregate
  /\ recon = NoRecon

\* handleMultipleBlock returns or throws: its locals are gone.
Leave(exception) ==
  /\ pc' = "idle"
  /\ thrown' = exception
  /\ h' = 0 /\ j' = 0 /\ block' = <<>> /\ calldatas' = <<>>
  /\ seen' = <<>> /\ flushed' = <<>>
  /\ stack' = <<>> /\ results' = <<>> /\ ret' = "end"

\* multicall(calldatas, null) is entered with the accumulator.
StartFlush(calls, site) ==
  /\ pc' = "multicall"
  /\ calldatas' = calls
  /\ flushed' = Append(flushed, Hashes(calls))
  /\ stack' = <<calls>>
  /\ results' = <<>>
  /\ ret' = site
  /\ estLog' = NoEstimation
  /\ submitted' = <<>>
  /\ aggregate' = NoAggregate

\* The for loop of handleSingleBlock moves to the next transaction, or the
\* block is done and the loop of handleMultipleBlock moves to the next height.
NextTransaction(calls) ==
  /\ calldatas' = calls
  /\ IF j < Len(block)
       THEN pc' = "tx" /\ j' = j + 1 /\ UNCHANGED <<h, block>>
       ELSE pc' = "scan" /\ h' = h + 1 /\ j' = 0 /\ block' = <<>>

\* handleMultipleBlock, lines 154-168: the head is read, a reorg handled, the
\* known height updated and the scan window opened.
HandleMultipleBlock ==
  /\ pc = "idle"
  /\ \E head \in 0..MaxHead :
       /\ latestL2' = head
       /\ IF head = state.highestKnownL2
         THEN /\ thrown' = NoThrow
              /\ UNCHANGED <<state, file, config, reverting, callback, initalIteration, singleCallGas,
                             pc, before, locals, seen, flushed, window, estLog, submitted,
                             aggregate, failedLog, recon>>
         ELSE /\ state' = observeHead(state, head, reorgSafetyDepth)
              /\ before' = state
              /\ initalIteration' = FALSE
              /\ h' = startScanHeight(state', initalIteration)
              /\ window' = [start |-> h',
                            end |-> endScanHeight(state', l2blockConfirmations)]
              /\ pc' = "scan"
              /\ thrown' = NoThrow
              /\ estLog' = NoEstimation /\ submitted' = <<>> /\ failedLog' = <<>>
              /\ aggregate' = NoAggregate
              /\ recon' = NoRecon
              /\ UNCHANGED <<file, config, reverting, callback, singleCallGas, j, block, calldatas,
                             seen, flushed, stack, results, ret>>

\* handleSingleBlock, lines 90-95: the block is fetched.
FetchBlock ==
  /\ pc = "scan"
  /\ h <= endScanHeight(state, l2blockConfirmations)
  /\ \/ \E blk \in Blocks :
          /\ IF Len(blk) = 0
               THEN h' = h + 1 /\ UNCHANGED <<pc, j, block>>
               ELSE pc' = "tx" /\ j' = 1 /\ block' = blk /\ UNCHANGED h
          /\ UNCHANGED <<calldatas, seen, flushed, stack, results, ret, thrown>>
     \/ Leave(RpcError)
  /\ UNCHANGED <<state, file, config, reverting, callback, initalIteration, singleCallGas, latestL2,
                 before, window, estLog, submitted, aggregate, failedLog, recon>>

\* handleSingleBlock, lines 99-148: one transaction of the block.
HandleTx ==
  /\ pc = "tx"
  /\ \/ /\ block[j] # READY_TO_PROVE
        /\ NextTransaction(calldatas)
        /\ UNCHANGED <<singleCallGas, seen, flushed, stack, results, ret,
                       thrown, estLog, submitted, aggregate>>
     \/ /\ block[j] = READY_TO_PROVE
        /\ \E estimatedGas \in GasEstimates :
             singleCallGas' = IF singleCallGas = 0 THEN estimatedGas
                                                   ELSE singleCallGas
        /\ seen' = Append(seen, <<h, j>>)
        /\ LET pushed == Append(calldatas, NewCall(h, j))
           IN IF ~isOvertargetGas(singleCallGas', Len(pushed))
                THEN /\ NextTransaction(pushed)
                     /\ UNCHANGED <<flushed, stack, results, ret, estLog,
                                    submitted, aggregate>>
                ELSE /\ StartFlush(pushed, "tx")
                     /\ UNCHANGED <<h, j, block>>
        /\ UNCHANGED thrown
     \/ \* toCrossChainMessage, getMessageStatus or estimateGas.proveMessage throws
        /\ Leave(RpcError)
        /\ UNCHANGED <<singleCallGas, estLog, submitted, aggregate>>
     \/ \* populateTransaction.proveMessage throws, after the estimate
        /\ block[j] = READY_TO_PROVE
        /\ singleCallGas = 0
        /\ singleCallGas' \in GasEstimates
        /\ Leave(RpcError)
        /\ UNCHANGED <<estLog, submitted, aggregate>>
  /\ UNCHANGED <<state, file, config, reverting, callback, initalIteration, latestL2, before, window,
                 failedLog, recon>>

\* handleMultipleBlock, lines 172-177: the window is scanned.
FlushLeft ==
  /\ pc = "scan"
  /\ ~(h <= endScanHeight(state, l2blockConfirmations))
  /\ IF 0 < Len(calldatas)
       THEN /\ StartFlush(calldatas, "end")
            /\ UNCHANGED <<h, j, block, seen, thrown>>
       ELSE /\ Leave(NoThrow)
            /\ UNCHANGED <<estLog, submitted, aggregate>>
  /\ UNCHANGED <<state, file, config, reverting, callback, initalIteration, singleCallGas, latestL2,
                 before, window, failedLog, recon>>

\* One invocation of multicall, lines 45-83, on the batch on top of the stack.
Multicall ==
  /\ pc = "multicall"
  /\ stack # <<>>
  /\ estLog.count < MaxEstimations
  /\ LET calls == Head(stack) IN
     \E outcome \in estimateOutcomes(calls, reverting) :
       /\ IF outcome # EstimateOk
            THEN /\ singleCallGas' = resetSingleCallGas(singleCallGas, outcome)
                 /\ estLog' = Estimation(estLog, calls, outcome)
                 /\ IF Len(calls) = 1
                      THEN /\ results' = results \o failedSingle(calls, outcome)
                           /\ stack' = Tail(stack)
                      ELSE /\ Len(stack) < MaxStack
                           /\ stack' = splitArray(calls) \o Tail(stack)
                           /\ results' = results
                 /\ UNCHANGED <<pc, h, j, block, calldatas, seen, flushed,
                                ret, thrown, submitted, aggregate>>
            ELSE \E sent \in SubmitOutcomes :
                 /\ singleCallGas' = singleCallGas
                 /\ aggregate' = [outcome |-> sent, size |-> Len(calls),
                                  of |-> Len(calldatas)]
                 /\ IF submitThrows(sent)
                      THEN Leave(sent) /\ estLog' = NoEstimation /\ UNCHANGED submitted
                      ELSE /\ submitted' = Append(submitted, Hashes(calls))
                           /\ IF callbackThrows(callback)
                                THEN Leave(CallbackError) /\ estLog' = NoEstimation
                                ELSE /\ stack' = Tail(stack)
                                     /\ estLog' =
                                          Estimation(estLog, calls, outcome)
                                     /\ UNCHANGED <<pc, h, j, block, calldatas,
                                                    seen, flushed, results, ret,
                                                    thrown>>
  /\ UNCHANGED <<state, file, config, reverting, callback, initalIteration, latestL2, before, window,
                 failedLog, recon>>

\* The outermost multicall has returned: handleMulticallResult, then the
\* accumulator is reset (prover.ts:141-147) or the scan is over (174-177).
HandleMulticallResult ==
  /\ pc = "multicall"
  /\ stack = <<>>
  /\ LET r == handleMulticallResult(state, calldatas, results) IN
       /\ state' = r.state
       /\ recon' = r.recon
       /\ failedLog' = failedLog \o results
       /\ IF r.recon.threw
            THEN Leave(ReduceEmptyError)
            ELSE IF ret = "tx"
                   THEN /\ NextTransaction(<<>>)
                        /\ stack' = <<>> /\ results' = <<>>
                        /\ UNCHANGED <<seen, flushed, ret, thrown>>
                   ELSE Leave(NoThrow)
  /\ estLog' = NoEstimation
  /\ UNCHANGED <<file, config, reverting, callback, initalIteration, singleCallGas, latestL2, before,
                 window, submitted, aggregate>>

\* writeState(): the record is persisted.
WriteState ==
  /\ pc = "idle"
  /\ file' = [present |-> TRUE,
              highestKnownL2 |-> state.highestKnownL2,
              highestProvenL2 |-> state.highestProvenL2,
              highestFinalizedL2 |-> state.highestFinalizedL2]
  /\ UNCHANGED <<state, config, reverting, callback, initalIteration, singleCallGas, pc, latestL2,
                 before, locals, seen, flushed, thrown, window, estLog, submitted, aggregate,
                 failedLog, recon>>

\* The process is started again: both objects are new, init() reads the file.
Restart ==
  /\ pc = "idle"
  /\ state' = initState(file, fromL2TransactionIndex)
  /\ initalIteration' = TRUE
  /\ singleCallGas' = Undefined
  /\ thrown' = NoThrow
  /\ window' = NoWindow
  /\ estLog' = NoEstimation /\ submitted' = <<>> /\ failedLog' = <<>>
  /\ aggregate' = NoAggregate
  /\ recon' = NoRecon
  /\ latestL2' = 0
  /\ before' = NoBefore
  /\ UNCHANGED <<file, config, reverting, callback, pc, locals, seen, flushed>>

Next ==
  \/ HandleMultipleBlock
  \/ FetchBlock
  \/ HandleTx
  \/ FlushLeft
  \/ Multicall
  \/ HandleMulticallResult
  \/ WriteState
  \/ Restart

\* ---- multicall called directly -------------------------------------------
\* A caller other than the Prover calls multicall(calls, callback) of a new
\* Multicaller with a batch of 0..MaxCalls calls.
DirectCall == "caller"
Batches == {[i \in 1..n |-> NewCall(0, i)] : n \in 0..MaxCalls}

InitMulticall ==
  /\ file = NoFile
  /\ reverting = {}
  /\ callback \in Callbacks
  /\ fromL2TransactionIndex = 0
  /\ l2blockConfirmations = 0
  /\ reorgSafetyDepth = 0
  /\ state = initState(file, fromL2TransactionIndex)
  /\ initalIteration = TRUE
  /\ singleCallGas = Undefined
  /\ pc = "multicall"
  /\ latestL2 = 0
  /\ before = NoBefore
  /\ h = 0 /\ j = 0 /\ block = <<>>
  /\ calldatas \in Batches
  /\ seen = <<>> /\ flushed = <<>>
  /\ stack = <<calldatas>> /\ results = <<>> /\ ret = DirectCall
  /\ thrown = NoThrow
  /\ window = NoWindow
  /\ estLog = NoEstimation /\ submitted = <<>> /\ failedLog = <<>>
  /\ aggregate = NoAggregate
  /\ recon = NoRecon

\* The outermost invocation returns its failed list to the caller.
MulticallReturns ==
  /\ pc = "multicall"
  /\ stack = <<>>
  /\ ret = DirectCall
  /\ pc' = "returned"
  /\ UNCHANGED <<state, file, config, reverting, callback, initalIteration,
                 singleCallGas, latestL2, before, locals, seen, flushed, thrown,
                 window, estLog, submitted, aggregate, failedLog, recon>>

NextMulticall ==
  \/ Multicall
  \/ MulticallReturns

Spec == Init /\ [][Next]_vars
SpecMulticall == InitMulticall /\ [][NextMulticall]_vars
SpecRevert == InitRevert /\ [][Next]_vars

\* ---- the claims ---------------------------------------------------------
AtRest == pc = "idle"

\* The head step of handleMultipleBlock saw the chain head go down.
ReorgObserved ==
  /\ pc = "idle" /\ pc' = "scan"
  /\ latestL2' < state.highestKnownL2

\* The head step of handleMultipleBlock saw the chain head go up.
AdvanceObserved ==
  /\ pc = "idle" /\ pc' = "scan"
  /\ latestL2' > state.highestKnownL2

\* An aggregate of the running flush was sent and included in this step.
AggregateIncluded ==
  /\ pc = "multicall"
  /\ Len(submitted') = Len(submitted) + 1

\* An estimation of the running flush failed in this step for the block gas limit.
GasAllowanceExceeded ==
  /\ pc = "multicall"
  /\ estLog'.count = estLog.count + 1
  /\ estLog'.outcome = ErrGasAllowance

\* The Scanner's one-off estimate of a single proveMessage succeeded in this step.
ProveMessageEstimated ==
  /\ pc = "tx"
  /\ block[j] = READY_TO_PROVE
  /\ singleCallGas = 0
  /\ singleCallGas' \in GasEstimates

\* C1: after the scans, no failed call has a block height at or below
\* highestProvenL2 (the proven watermark covers no block with an unproven call).
C1_NoFailedCallUnderProven ==
  AtRest =>
    \A i \in 1..Len(failedLog) :
      failedLog[i].blockHeight > state.highestProvenL2

\* C2: at rest, highestFinalizedL2 <= highestProvenL2 <= highestKnownL2.
C2_WatermarksOrderedAtRest ==
  AtRest =>
    /\ state.highestFinalizedL2 <= state.highestProvenL2
    /\ state.highestProvenL2 <= state.highestKnownL2

\* C3: when the estimation of a flushed batch succeeds and the aggregate is
\* included, multicall invokes the callback and returns an empty failed list,
\* so that the reconciliation of that batch follows.
C3_EstimatedFlushReturnsEmpty ==
  [][(AggregateIncluded /\ Head(stack) = calldatas)
       => /\ pc' = "multicall"
          /\ thrown' = NoThrow
          /\ stack' = <<>>
          /\ results' = <<>>
          /\ calldatas' = calldatas]_vars

\* C4: a call that failed in one scan is inside the window of a later scan
\* when the head advances.  Scan starts do not go down while the head goes
\* up, so a failed call below the start of the next such scan is below the
\* start of every later one.
C4_FailedCallIsRescanned ==
  [][AdvanceObserved
       => \A i \in 1..Len(failedLog) :
            failedLog[i].blockHeight <= window'.end
              => window'.start <= failedLog[i].blockHeight]_vars

\* C5: a reorg to L with P > L - D leaves highestProvenL2 = L - D, lowers
\* highestFinalizedL2 by exactly P - (L - D) and leaves highestKnownL2 = L;
\* with P = 100, L = 90, D = 5 and finalized 80: proven 85, finalized 65.
C5_ReorgRewind ==
  /\ handleL2Reorg([highestKnownL2 |-> 100, highestProvenL2 |-> 100,
                    highestFinalizedL2 |-> 80], 90, 5)
       = [highestKnownL2 |-> 90, highestProvenL2 |-> 85,
          highestFinalizedL2 |-> 65]
  /\ [][(ReorgObserved
          /\ state.highestProvenL2 > latestL2' - reorgSafetyDepth)
         => /\ state'.highestProvenL2 = latestL2' - reorgSafetyDepth
            /\ state'.highestFinalizedL2 =
                 state.highestFinalizedL2
                   - (state.highestProvenL2 - (latestL2' - reorgSafetyDepth))
            /\ state'.highestKnownL2 = latestL2']_vars

\* A scan was entered by a reorg that rewound the proven height.
C5_Witness ==
  /\ pc = "scan"
  /\ latestL2 < before.highestKnownL2
  /\ before.highestProvenL2 > latestL2 - reorgSafetyDepth
  /\ state.highestProvenL2 = latestL2 - reorgSafetyDepth
  /\ state.highestProvenL2 < before.highestProvenL2
  /\ state.highestFinalizedL2 < before.highestFinalizedL2

\* C6: a reorg to L with P <= L - D leaves highestProvenL2 and
\* highestFinalizedL2 unchanged; only highestKnownL2 changes.
C6_ReorgNoOp ==
  [][(ReorgObserved
       /\ state.highestProvenL2 <= latestL2' - reorgSafetyDepth)
      => /\ state'.highestProvenL2 = state.highestProvenL2
         /\ state'.highestFinalizedL2 = state.highestFinalizedL2
         /\ state'.highestKnownL2 = latestL2']_vars

\* A scan was entered by a reorg that left the proven height alone, with the
\* proven height strictly below L - D.
C6_Witness ==
  /\ pc = "scan"
  /\ latestL2 < before.highestKnownL2
  /\ before.highestProvenL2 < latestL2 - reorgSafetyDepth
  /\ state.highestProvenL2 = before.highestProvenL2
  /\ state.highestFinalizedL2 = before.highestFinalizedL2
  /\ state.highestKnownL2 = latestL2

\* C7: the watermarks are non-negative in every state that can be persisted.
C7_WatermarksNonNegative ==
  /\ AtRest =>
       /\ state.highestKnownL2 >= 0
       /\ state.highestProvenL2 >= 0
       /\ state.highestFinalizedL2 >= 0
  /\ file.present =>
       /\ file.highestKnownL2 >= 0
       /\ file.highestProvenL2 >= 0
       /\ file.highestFinalizedL2 >= 0

\* C8: updateHighestCheckedL2 on an empty list (every call of the flushed
\* batch failed) returns false without throwing, so that reconciliation
\* forwards to the downstream consumer and logs every failed call.
C8_EmptyAdvanceIsNoOp ==
  (recon.ran /\ recon.succeeds = <<>>) =>
    /\ ~recon.threw
    /\ ~recon.advanced
    /\ recon.posts = 1
    /\ recon.warned = recon.faileds

\* C9: when every estimation of a flush of N calls fails, multicall makes
\* exactly N estimations of a single call and returns exactly N failures,
\* the input calls in order, each with the error of its own estimation.
C9_SplittingConvergence ==
  (pc = "multicall" /\ stack = <<>> /\ estLog.allFailed) =>
    /\ Len(estLog.singles) = Len(calldatas)
    /\ Len(results) = Len(calldatas)
    /\ \A i \in 1..Len(calldatas) :
         /\ estLog.singles[i].txHash = calldatas[i].txHash
         /\ estLog.singles[i].outcome \in EstimateErrors
         /\ results[i] = [calldatas[i] EXCEPT !.err = estLog.singles[i].outcome]

\* multicall returned for three or more calls, all failed, not all for the
\* same reason.
C9_Witness ==
  /\ pc = "multicall" /\ stack = <<>> /\ estLog.allFailed
  /\ Len(calldatas) >= 3
  /\ Len(results) = Len(calldatas)
  /\ results[1].err # results[2].err

\* C10: an estimation that fails for the block gas limit sets singleCallGas
\* to 0, and from 0 only the Scanner's next successful estimate of a single
\* proveMessage changes it (a restarted process has a new Multicaller).
C10_CalibrationReset ==
  [][/\ GasAllowanceExceeded => singleCallGas' = 0
     /\ (singleCallGas = 0 /\ singleCallGas' # 0)
          => (ProveMessageEstimated \/ Restart)]_vars

\* A flush that the gas budget started (the calibration was a positive
\* figure) had an estimation fail for the block gas limit: the calibration
\* is 0 and stayed 0 over the estimations after it.
C10_Witness ==
  /\ pc = "multicall"
  /\ ret = "tx"
  /\ singleCallGas = 0
  /\ estLog.count >= 3
  /\ Len(estLog.singles) >= 1
  /\ estLog.singles[1].outcome = ErrGasAllowance

\* The aggregate of the running flush was sent in this step and the send, or
\* the wait for its inclusion, failed.
SubmissionFailed ==
  /\ pc = "multicall"
  /\ aggregate.outcome = NotSent
  /\ aggregate'.outcome \in {TxSendFailed, TxWaitFailed}

\* C11: when the submission of the aggregate or the wait for its inclusion
\* fails after a successful estimation, the error leaves multicall, whatever
\* the depth of the recursion, and leaves handleMultipleBlock; no
\* reconciliation runs for the batch, and highestProvenL2 and
\* highestFinalizedL2 are as they were before the flush.
C11_SubmissionFailurePropagates ==
  [][SubmissionFailed
       => /\ pc' = "idle"
          /\ thrown' = aggregate'.outcome
          /\ stack' = <<>>
          /\ recon' = recon /\ ~recon'.ran
          /\ failedLog' = failedLog
          /\ submitted' = submitted
          /\ state' = state]_vars

\* handleMultipleBlock was ended by the failed wait for an aggregate that a
\* recursive half of a flush of three or more calls had sent.
C11_Witness ==
  /\ pc = "idle"
  /\ thrown = TxWaitFailed
  /\ aggregate.outcome = TxWaitFailed
  /\ aggregate.of >= 3
  /\ aggregate.size < aggregate.of
  /\ ~recon.ran

\* C12: whatever heads getBlockNumber answers, when a call of
\* handleMultipleBlock is over highestKnownL2 is the head it read, and its
\* head step (observation and reorg handling) raises neither
\* highestProvenL2 nor highestFinalizedL2.
C12_KnownFollowsHead ==
  [][/\ HandleMultipleBlock
          => /\ state'.highestKnownL2 = latestL2'
             /\ state'.highestProvenL2 <= state.highestProvenL2
             /\ state'.highestFinalizedL2 <= state.highestFinalizedL2
     /\ (pc # "idle" /\ pc' = "idle")
          => state'.highestKnownL2 = latestL2']_vars

\* A call of handleMultipleBlock that read a lower head than the known one
\* scanned a window of at least one block and returned.
C12_Witness ==
  /\ pc = "idle"
  /\ thrown = NoThrow
  /\ ~initalIteration
  /\ latestL2 < before.highestKnownL2
  /\ state.highestKnownL2 = latestL2
  /\ window.start <= window.end

\* A ready transaction was appended to the accumulator in this step.
CallAppended ==
  /\ pc = "tx"
  /\ Len(calldatas') = Len(calldatas) + 1

\* The largest size whose expected gas singleCallGas * size * 11/10 is not
\* above targetGas, for a positive singleCallGas.
LargestUnderTarget(gas) ==
  (targetGas * gasMultiplierDen) \div (gas * gasMultiplierNum)

\* C13: isOvertargetGas(size) is true exactly when size * singleCallGas *
\* gasMultiplier is strictly greater than targetGas: with targetGas
\* 1,000,000, singleCallGas 100,000 and multiplier 1.1 it is false for every
\* size up to 9 and true from 10 on; for every calibration it is true from
\* the first size whose product passes targetGas, never for a calibration of
\* 0 or one never assigned; and the Scanner flushes after an append exactly
\* when the product for the new size is above targetGas.
C13_FlushDecision ==
  /\ \A size \in 0..MaxBatchSize :
        isOvertargetGas(100000, size) <=> size >= 10
  /\ \A size \in 0..MaxBatchSize :
        /\ ~isOvertargetGas(0, size)
        /\ ~isOvertargetGas(Undefined, size)
        /\ \A gas \in GasEstimates \cup {100000} :
             isOvertargetGas(gas, size) <=> size > LargestUnderTarget(gas)
  /\ [][CallAppended
         => (pc' = "multicall"
               <=> /\ singleCallGas' \in GasEstimates
                   /\ Len(calldatas') > LargestUnderTarget(singleCallGas'))]_vars

\* The Scanner started a flush in the middle of a block because the third
\* call took the expected gas of the accumulator above targetGas.
C13_Witness ==
  /\ pc = "multicall"
  /\ ret = "tx"
  /\ estLog.count = 0
  /\ singleCallGas = 400000
  /\ Len(calldatas) = 3
  /\ isOvertargetGas(singleCallGas, Len(calldatas))
  /\ ~isOvertargetGas(singleCallGas, Len(calldatas) - 1)

\* C14: the first scan after the start of the process begins at
\* highestFinalizedL2 and every later scan at highestProvenL2 + 1; a scan
\* ends, inclusive, at highestKnownL2 - l2blockConfirmations; within a scan
\* the heights are visited one by one upwards and the transactions of a
\* block one by one in the order of the block.
C14_ScanWindow ==
  [][/\ (pc = "idle" /\ pc' = "scan")
          => /\ h' = IF initalIteration THEN state'.highestFinalizedL2
                                        ELSE state'.highestProvenL2 + 1
             /\ window' = [start |-> h',
                           end |-> state'.highestKnownL2 - l2blockConfirmations]
     /\ (pc \in {"scan", "tx"} /\ pc' \in {"scan", "tx"})
          => \/ h' = h /\ j' = j + 1 /\ pc' = "tx"
             \/ h' = h + 1 /\ j' = 0 /\ pc' = "scan"
     /\ pc' = "tx"
          => /\ window'.start <= h' /\ h' <= window'.end
             /\ j' \in 1..Len(block')
     /\ (pc = "scan" /\ pc' \notin {"scan", "tx"} /\ thrown' = NoThrow)
          => h = IF window.start <= window.end THEN window.end + 1
                                               ELSE window.start]_vars

\* A scan that is not the first of the process, begun above the finalized
\* height, is at the second transaction of a block above the first of its
\* window.
C14_Witness ==
  /\ pc = "tx"
  /\ ~initalIteration
  /\ window.start = state.highestProvenL2 + 1
  /\ window.start # state.highestFinalizedL2
  /\ window.start < h /\ h <= window.end
  /\ j = 2

\* The batches of a sequence of batches, one after the other.
RECURSIVE Concat(_)
Concat(batches) ==
  IF batches = <<>> THEN <<>> ELSE Head(batches) \o Concat(Tail(batches))

\* handleMultipleBlock is over in this step, and no call of the chain (a
\* query of the scan, the sending of an aggregate, the wait for it) failed.
ScanOver ==
  /\ pc # "idle" /\ pc' = "idle"
  /\ thrown' \notin {RpcError, TxSendFailed, TxWaitFailed}

Range(seq) == {seq[i] : i \in 1..Len(seq)}

\* C16: the reconciliation of a flush partitions the batch: postMessage is
\* invoked exactly once, with exactly the attempted calls that are not in
\* the failed list of the Batcher; every failed call gets exactly one
\* warning; no call is both forwarded and reported as failed.
C16_ReconciliationPartitions ==
  recon.ran =>
    /\ recon.posts = 1
    /\ recon.posted =
         SelectSeq(recon.calleds, LAMBDA id : id \notin Range(recon.faileds))
    /\ recon.warned = recon.faileds
    /\ Range(recon.posted) \cap Range(recon.warned) = {}

\* C17: from a newly constructed Multicaller on, singleCallGas is an
\* estimate of a single proveMessage by the time the flush decision is taken
\* for an appended call, so that the accumulator is flushed at the first
\* size whose expected gas is above targetGas and never grows beyond it.
C17_CalibratedBeforeFlushDecision ==
  [][CallAppended
       => /\ singleCallGas' \in GasEstimates
          /\ Len(calldatas') <= LargestUnderTarget(singleCallGas') + 1
          /\ pc' = "multicall"
               <=> Len(calldatas') = LargestUnderTarget(singleCallGas') + 1]_vars

\* An estimation of the running flush is made in this step, of a batch that
\* holds a call known to revert when executed alone.
RevertingBatchEstimated ==
  /\ pc = "multicall"
  /\ stack # <<>>
  /\ revertsAlone(Head(stack), reverting)
  /\ vars' # vars

PositionOf(id) == CHOOSE i \in 1..Len(calldatas) : calldatas[i].txHash = id
\* The aggregates sent and included that carry the call, and the places of
\* the call in the failed list.
AggregatesOf(id) == {k \in 1..Len(submitted) : id \in Range(submitted[k])}
FailuresOf(id) == {k \in 1..Len(results) : results[k].txHash = id}
Resolved(id) == AggregatesOf(id) # {} \/ FailuresOf(id) # {}

\* C19: when multicall returns normally for a batch of N >= 1 calls, every
\* call of the batch was part of exactly one submitted aggregate and is not
\* in the result, or is exactly once in the returned failed list, with an
\* error; the failed list is in the order of the batch; and a batch is
\* estimated only when every call before it is resolved and no call of it
\* or after it is (the first half is done before the second is begun).
C19_EachCallResolvedOnce ==
  /\ (pc = "returned" /\ Len(calldatas) >= 1) =>
       /\ \A i \in 1..Len(calldatas) :
            LET id == calldatas[i].txHash IN
              \/ /\ Cardinality(AggregatesOf(id)) = 1
                 /\ FailuresOf(id) = {}
              \/ /\ AggregatesOf(id) = {}
                 /\ Cardinality(FailuresOf(id)) = 1
                 /\ \A k \in FailuresOf(id) : results[k].err \in EstimateErrors
       /\ \A a, b \in 1..Len(results) :
            a < b => PositionOf(results[a].txHash) < PositionOf(results[b].txHash)
  /\ (pc = "multicall" /\ stack # <<>> /\ Head(stack) # <<>>) =>
       \A i \in 1..Len(calldatas) :
         Resolved(calldatas[i].txHash)
           <=> i < PositionOf(Head(stack)[1].txHash)

\* multicall returned to a caller whose callback is a function, from a batch
\* of three or more calls of which some were sent in an aggregate and some
\* came back as failed.
C19_Witness ==
  /\ pc = "returned"
  /\ Len(calldatas) >= 3
  /\ submitted # <<>>
  /\ results # <<>>
  /\ Len(results) + Len(Concat(submitted)) = Len(calldatas)

\* One invocation of multicall called itself on the two halves in this step.
BatchSplit ==
  /\ pc = "multicall"
  /\ Len(stack') = Len(stack) + 1

\* C20: multicall terminates for every finite batch, the empty one
\* included, whatever the estimations answer: every recursive call is on a
\* strictly smaller batch, and a batch of N >= 1 calls is estimated at most
\* 2N - 1 times.
C20_MulticallTerminates ==
  /\ [][BatchSplit
          => /\ Len(stack'[1]) < Len(stack[1])
             /\ Len(stack'[2]) < Len(stack[1])]_vars
  /\ [](Len(calldatas) >= 1 => estLog.count <= 2 * Len(calldatas) - 1)

====
